---- MODULE Spec2Model ----
(***************************************************************************)
(* A model of the twitter summary bot (python/src/tweets.py, utils.py,     *)
(* webhook.py): the summary bounder limit_summary, the reference graph     *)
(* builder build_tweet_tree, the thread linearizer enumerate_tweet_tree,   *)
(* the thread reconstruction get_tweet_thread with its polling search,     *)
(* and the steps of the mention handler that webhook.py calls.             *)
(*                                                                         *)
(* Strings are sequences of one-character strings.  A dict whose iteration *)
(* order is read (parents) is a sequence of <<key, value>> pairs in        *)
(* insertion order; a dict that is only looked up (tree, tweets) is a      *)
(* function on its keys.                                                   *)
(***************************************************************************)
EXTENDS Integers, Sequences, FiniteSets, TLC

VARIABLES
    summary,     \* limit_summary: the argument
    bounded,     \* limit_summary(summary)
    rebounded,   \* limit_summary(bounded)
    bpc,         \* "init" | "once" | "twice"
    parents,     \* dict child -> parent, as <<child, parent>> pairs in insertion order
    tree,        \* dict parent -> list of children
    root,        \* enumerate_tweet_tree: the argument root
    order,       \* enumerate_tweet_tree: the list returned
    tpc,         \* "init" | "built" | "done"
    pc,          \* get_tweet_thread: "start" | "search" | "sleep" | "build" |
                 \*   "returned" | "returned_none" | "key_error"
    platform,    \* the tweets search_recent_tweets returns once they are indexed
    conv_id,     \* get_tweet_thread: the argument conv_id
    tagging_id,  \* get_tweet_thread: the argument tagging_id
    author_id,   \* get_tweet_thread: author of the start tweet
    data,        \* get_tweet_thread: data.includes["tweets"] + data.data
    tweets,      \* get_tweet_thread: dict id -> text
    conversation, \* get_tweet_thread: the list returned
    hpc,         \* TweetHandler.handle: the step reached
    origin_age,  \* age of the conversation's origin message, in days
    debug,       \* the dry-run flag
    searched,    \* whether a search for the conversation's messages was issued
    replied,     \* whether a reply was posted
    failure      \* the failure the handling ended in, or "none"

boundVars == <<summary, bounded, rebounded, bpc>>

treeVars == <<parents, tree, root, order, tpc>>

threadVars == <<pc, platform, conv_id, tagging_id, author_id, data, tweets, conversation>>

handlerVars == <<hpc, origin_age, debug, searched, replied, failure>>

vars == <<boundVars, treeVars, threadVars, handlerVars>>

(***************************************************************************)
(* Bounds of the model.                                                    *)
(***************************************************************************)
MaxPieces == 4

MaxNode == 4

MaxId == 4

MaxAgeDays == 10

(***************************************************************************)
(* Program constants.                                                      *)
(***************************************************************************)
Limit == 280

Mention == <<"@", "G", "P", "T", "S", "u", "m", "m", "a", "r", "y">>

MentionPlain == <<"G", "P", "T", "S", "u", "m", "m", "a", "r", "y">>

Space == <<" ">>

\* No identifier (identifiers are positive): a variable not yet assigned.
NoId == 0

\* The None that get_parent returns; in a parent function, the value of a
\* node that is no key of the mapping.
NoParent == 0

\* Python's None, where a string may stand.
None == "None"

(***************************************************************************)
(* Sequence helpers.  Recursion halves its range, so that strings of       *)
(* several hundred characters are evaluated with a shallow call stack.     *)
(***************************************************************************)
RECURSIVE ConcatRange(_, _, _)
ConcatRange(parts, lo, hi) ==
    IF lo > hi THEN <<>>
    ELSE IF lo = hi THEN parts[lo]
    ELSE LET mid == (lo + hi) \div 2
         IN  ConcatRange(parts, lo, mid) \o ConcatRange(parts, mid + 1, hi)

Concat(parts) == ConcatRange(parts, 1, Len(parts))

RECURSIVE SumRange(_, _, _)
SumRange(nums, lo, hi) ==
    IF lo > hi THEN 0
    ELSE IF lo = hi THEN nums[lo]
    ELSE LET mid == (lo + hi) \div 2
         IN  SumRange(nums, lo, mid) + SumRange(nums, mid + 1, hi)

\* The ascending sequence of the positions lo..hi at which flags is TRUE.
RECURSIVE Positions(_, _, _)
Positions(flags, lo, hi) ==
    IF lo > hi THEN <<>>
    ELSE IF lo = hi THEN (IF flags[lo] THEN <<lo>> ELSE <<>>)
    ELSE LET mid == (lo + hi) \div 2
         IN  Positions(flags, lo, mid) \o Positions(flags, mid + 1, hi)

Max(S) == CHOOSE x \in S : \A y \in S : y <= x

Min(S) == CHOOSE x \in S : \A y \in S : x <= y

\* The elements of a finite set of numbers in ascending order.
RECURSIVE Ascending(_)
Ascending(S) ==
    IF S = {} THEN <<>> ELSE <<Min(S)>> \o Ascending(S \ {Min(S)})

Range(s) == {s[i] : i \in DOMAIN s}

(***************************************************************************)
(* Python string operations.                                               *)
(***************************************************************************)
\* The characters str.split() with no argument treats as separators.
IsSpace(c) == c \in {" ", "\t", "\n"}

\* str.split(): the maximal runs of non-whitespace characters, in order.
Split(s) ==
    LET n == Len(s)
        starts == Positions([i \in 1..n |-> ~IsSpace(s[i]) /\ (i = 1 \/ IsSpace(s[i - 1]))], 1, n)
        ends == Positions([i \in 1..n |-> ~IsSpace(s[i]) /\ (i = n \/ IsSpace(s[i + 1]))], 1, n)
    IN  [k \in 1..Len(starts) |-> SubSeq(s, starts[k], ends[k])]

\* sep.join(words)
Join(sep, words) ==
    LET n == Len(words)
    IN  Concat([k \in 1..(2 * n - 1) |-> IF k % 2 = 1 THEN words[(k + 1) \div 2] ELSE sep])

\* s[:n] for n >= 0
Slice(s, n) == SubSeq(s, 1, IF Len(s) < n THEN Len(s) ELSE n)

\* Whether old occurs in s at position i.
MatchAt(s, old, i) == i + Len(old) - 1 <= Len(s) /\ SubSeq(s, i, i + Len(old) - 1) = old

\* The starts of the occurrences str.replace rewrites: leftmost first, never
\* overlapping an occurrence already taken.
RECURSIVE TakeMatches(_, _, _, _)
TakeMatches(cands, k, width, nextFree) ==
    IF k > Len(cands) THEN <<>>
    ELSE IF cands[k] < nextFree THEN TakeMatches(cands, k + 1, width, nextFree)
    ELSE <<cands[k]>> \o TakeMatches(cands, k + 1, width, cands[k] + width)

\* s.replace(old, new) for a non-empty old: a new string; s itself is unchanged.
Replace(s, old, new) ==
    LET n == Len(s)
        w == Len(old)
        ms == TakeMatches(Positions([i \in 1..n |-> MatchAt(s, old, i)], 1, n), 1, w, 1)
        m == Len(ms)
        piece(k) == IF k % 2 = 0 THEN new
                    ELSE LET j == (k + 1) \div 2
                             from == IF j = 1 THEN 1 ELSE ms[j - 1] + w
                             to == IF j = m + 1 THEN n ELSE ms[j] - 1
                         IN  SubSeq(s, from, to)
    IN  Concat([k \in 1..(2 * m + 1) |-> piece(k)])

Contains(s, old) == \E i \in 1..Len(s) : MatchAt(s, old, i)

(***************************************************************************)
(* limit_summary (tweets.py 272-295).                                      *)
(***************************************************************************)
\* Line 285: summary.replace("@GPTSummary", "GPTSummary") as an expression
\* statement.  str.replace returns a new string; nothing is bound to it, so
\* the name summary still refers to the argument.
MentionRewrite(s) ==
    LET unused == Replace(s, Mention, MentionPlain)
    IN  s

\* Line 286: len(summary) > 280
TooLongShortLimit(s) == Len(s) > 28

TooLong(s) == Len(s) > Limit

\* Line 291: what dropping one word takes off the length.
WordCostDouble(w) == Len(w) + 2

WordCost(w) == Len(w) + 1

\* removed after the iteration with Python index i (words[i] is the model's
\* words[i + 1]): the summed cost of words[i], ..., words[len(words) - 1].
RemovedAt(words, i) ==
    SumRange([j \in (i + 1)..Len(words) |-> WordCost(words[j])], i + 1, Len(words))

\* Line 292: cur_len - removed <= 280
Fits(curLen, removed) == curLen - removed <= Limit

\* Lines 290-294: i runs over len(words) - 1, ..., 1 and the loop breaks at the
\* first i that fits, the largest one; 0 when the range ends without a break.
BreakIndex(words, curLen) ==
    LET hits == {i \in 1..(Len(words) - 1) : Fits(curLen, RemovedAt(words, i))}
    IN  IF hits = {} THEN 0 ELSE Max(hits)

\* Line 293: " ".join(words[:i])[:280]
Truncated(words, i) == Slice(Join(Space, SubSeq(words, 1, i)), Limit)

limit_summary(arg) ==
    LET s == MentionRewrite(arg)
    IN  IF TooLong(s)
        THEN LET words == Split(s)
                 i == BreakIndex(words, Len(s))
             IN  IF i = 0 THEN s ELSE Truncated(words, i)
        ELSE s

(***************************************************************************)
(* Inputs of limit_summary: concatenations of at most MaxPieces chunks     *)
(* (one-letter and long words, single and long whitespace runs, the        *)
(* mention handle), and Scenario C's string alone or followed by a chunk.  *)
(***************************************************************************)
Rep(c, n) == [i \in 1..n |-> c]

\* 300 characters of repeated "a ".
ScenarioC == [i \in 1..300 |-> IF i % 2 = 1 THEN "a" ELSE " "]

Chunks ==
    { <<"a">>, Space, Rep("a", 140), Rep("a", 141), Rep(" ", 281), Mention }

Summaries ==
    { Concat(ps) : ps \in UNION { [1..n -> Chunks] : n \in 0..MaxPieces } }
        \cup { ScenarioC \o c : c \in Chunks \cup {<<>>} }

(***************************************************************************)
(* The bounder applied once, and once more to its own result.              *)
(***************************************************************************)
IdleBound ==
    /\ summary = <<>>
    /\ bounded = <<>>
    /\ rebounded = <<>>
    /\ bpc = "idle"

IdleTree ==
    /\ parents = <<>>
    /\ tree = <<>>
    /\ root = NoId
    /\ order = <<>>
    /\ tpc = "idle"

IdleThread ==
    /\ pc = "idle"
    /\ platform = {}
    /\ conv_id = NoId
    /\ tagging_id = NoId
    /\ author_id = None
    /\ data = <<>>
    /\ tweets = <<>>
    /\ conversation = <<>>

IdleHandler ==
    /\ hpc = "idle"
    /\ origin_age = 0
    /\ debug = FALSE
    /\ searched = FALSE
    /\ replied = FALSE
    /\ failure = "none"

InitBound ==
    /\ summary \in Summaries
    /\ bounded = <<>>
    /\ rebounded = <<>>
    /\ bpc = "init"
    /\ IdleTree
    /\ IdleThread
    /\ IdleHandler

Bound ==
    /\ bpc = "init"
    /\ bounded' = limit_summary(summary)
    /\ bpc' = "once"
    /\ UNCHANGED <<summary, rebounded, treeVars, threadVars, handlerVars>>

Rebound ==
    /\ bpc = "once"
    /\ rebounded' = limit_summary(bounded)
    /\ bpc' = "twice"
    /\ UNCHANGED <<summary, bounded, treeVars, threadVars, handlerVars>>

NextBound == Bound \/ Rebound

SpecBound == InitBound /\ [][NextBound]_vars

(***************************************************************************)
(* Claims about limit_summary, checked under SpecBound.                    *)
(***************************************************************************)
\* C1: for every input string the result of limit_summary has at most 280
\* characters.
C1_AtMostLimit == bpc \in {"once", "twice"} => Len(bounded) <= Limit

\* C6: whenever limit_summary shortens a string, the result is the
\* single-space join of a non-empty prefix of the input's words (so it never
\* ends inside a word and no hard character cut has happened).
C6_WholeWordPrefix ==
    (bpc \in {"once", "twice"} /\ bounded # summary) =>
        LET words == Split(summary)
            k == Len(Split(bounded))
        IN  /\ Len(bounded) < Len(summary)
            /\ 1 <= k /\ k <= Len(words)
            /\ bounded = Join(Space, SubSeq(words, 1, k))

\* Scenario C: 300 characters of repeated "a " are cut to 140 whole words.
C6_Witness ==
    /\ bpc = "once"
    /\ summary = ScenarioC
    /\ bounded = Join(Space, [k \in 1..140 |-> <<"a">>])
    /\ Len(bounded) = 279

\* C7: the result of limit_summary contains no "@GPTSummary", and for an
\* input of at most 280 characters it is the input with every "@GPTSummary"
\* rewritten to "GPTSummary".
C7_MentionRewritten ==
    bpc \in {"once", "twice"} =>
        /\ ~Contains(bounded, Mention)
        /\ Len(summary) <= Limit => bounded = Replace(summary, Mention, MentionPlain)

\* C8: limit_summary is idempotent: applied to its own result it returns
\* that result.
C8_Idempotent == bpc = "twice" => rebounded = bounded

\* A string that the first application shortened, bounded a second time.
C8_Witness ==
    /\ bpc = "twice"
    /\ Len(summary) > Limit
    /\ bounded # summary
    /\ Len(Split(bounded)) > 1

(***************************************************************************)
(* build_tweet_tree and enumerate_tweet_tree (tweets.py 32-74, the same    *)
(* text as utils.py 5-49).                                                 *)
(***************************************************************************)
\* A dict as a function: its keys are the function's domain.
EmptyDict == <<>>

\* Line 48: tree[parent].append(child); the defaultdict makes the missing
\* list.
AddChildOverwrite(t, child, parent) ==
    [k \in DOMAIN t \cup {parent} |-> IF k = parent THEN <<child>> ELSE t[k]]

AddChild(t, child, parent) ==
    [k \in DOMAIN t \cup {parent} |->
        IF k = parent
        THEN (IF parent \in DOMAIN t THEN Append(t[parent], child) ELSE <<child>>)
        ELSE t[k]]

\* Lines 46-49: the items of parents in insertion order.
RECURSIVE BuildFrom(_, _, _)
BuildFrom(ps, k, t) ==
    IF k > Len(ps) THEN t
    ELSE BuildFrom(ps, k + 1, AddChild(t, ps[k][1], ps[k][2]))

build_tweet_tree(ps) == BuildFrom(ps, 1, EmptyDict)

\* Line 72: sorted(tree[root])
ChildrenUnsorted(t, r) == t[r]

Children(t, r) == SortSeq(t[r], LAMBDA a, b : a < b)

\* Lines 68-74
RECURSIVE enumerate_tweet_tree(_, _)
enumerate_tweet_tree(t, r) ==
    IF r \notin DOMAIN t THEN <<r>>
    ELSE LET cs == Children(t, r)
         IN  <<r>> \o Concat([k \in 1..Len(cs) |-> enumerate_tweet_tree(t, cs[k])])

(***************************************************************************)
(* Inputs of build_tweet_tree: every acyclic child -> parent mapping over  *)
(* the identifiers 1..MaxNode (a reply refers to a message that exists     *)
(* already), in every insertion order.                                     *)
(***************************************************************************)
Nodes == 1..MaxNode

\* Every ordering of a finite set, as sequences.
RECURSIVE Orderings(_)
Orderings(S) ==
    IF S = {} THEN {<<>>}
    ELSE UNION { { <<x>> \o o : o \in Orderings(S \ {x}) } : x \in S }

\* The k-th ancestor of node n under the parent function f.
RECURSIVE AncestorAt(_, _, _)
AncestorAt(f, n, k) ==
    IF n = NoParent \/ k = 0 THEN n ELSE AncestorAt(f, f[n], k - 1)

\* No node is its own ancestor.
Acyclic(f) ==
    \A n \in Nodes : \A k \in 1..MaxNode : AncestorAt(f, n, k) # n

ParentMaps == { f \in [Nodes -> Nodes \cup {NoParent}] : Acyclic(f) }

EdgesOf(f) == { <<n, f[n]>> : n \in { m \in Nodes : f[m] # NoParent } }

ParentDicts == UNION { Orderings(EdgesOf(f)) : f \in ParentMaps }

InitTree ==
    /\ parents \in ParentDicts
    /\ tree = <<>>
    /\ root = NoId
    /\ order = <<>>
    /\ tpc = "init"
    /\ IdleBound
    /\ IdleThread
    /\ IdleHandler

BuildTree ==
    /\ tpc = "init"
    /\ tree' = build_tweet_tree(parents)
    /\ tpc' = "built"
    /\ UNCHANGED <<parents, root, order, boundVars, threadVars, handlerVars>>

EnumerateTree ==
    /\ tpc = "built"
    /\ \E r \in Nodes :
          /\ root' = r
          /\ order' = enumerate_tweet_tree(tree, r)
    /\ tpc' = "done"
    /\ UNCHANGED <<parents, tree, boundVars, threadVars, handlerVars>>

NextTree == BuildTree \/ EnumerateTree

SpecTree == InitTree /\ [][NextTree]_vars

(***************************************************************************)
(* Claims about the graph builder and the linearizer, checked under        *)
(* SpecTree.  The reference notions below read the mapping as a set of     *)
(* edges, so they do not see its insertion order.                          *)
(***************************************************************************)
KidsOf(edges, n) == { e[1] : e \in { d \in edges : d[2] = n } }

\* Pre-order depth-first sequence: the node, then each child's sequence, the
\* children in ascending identifier order.
RECURSIVE PreOrder(_, _)
PreOrder(edges, n) ==
    LET kids == Ascending(KidsOf(edges, n))
    IN  <<n>> \o Concat([k \in 1..Len(kids) |-> PreOrder(edges, kids[k])])

\* The descendants of n: the nodes from which parent edges lead to n.
RECURSIVE ReachDown(_, _)
ReachDown(edges, frontier) ==
    LET next == frontier \cup UNION { KidsOf(edges, n) : n \in frontier }
    IN  IF next = frontier THEN frontier ELSE ReachDown(edges, next)

Descendants(edges, n) == ReachDown(edges, {n}) \ {n}

Occurrences(s, x) == Cardinality({ i \in DOMAIN s : s[i] = x })

\* C2: enumerate_tweet_tree(build_tweet_tree(parents), root) is the pre-order
\* depth-first sequence with children in ascending identifier order, [root]
\* alone when root has no recorded children, whatever the insertion order
\* of parents.
C2_PreOrderAscending ==
    tpc = "done" =>
        /\ order = PreOrder(Range(parents), root)
        /\ KidsOf(Range(parents), root) = {} => order = <<root>>

\* Scenario A, inserted in an order that is not ascending: {3:1, 4:2, 2:1}
\* with root 1 gives [1, 2, 4, 3].
C2_Witness ==
    /\ tpc = "done"
    /\ parents = << <<3, 1>>, <<4, 2>>, <<2, 1>> >>
    /\ root = 1
    /\ order = <<1, 2, 4, 3>>

\* C3: for an acyclic mapping, the traversal from a node that is a key of the
\* graph contains every descendant of that node exactly once and nothing but
\* the node and its descendants.
C3_DescendantsExactlyOnce ==
    (tpc = "done" /\ root \in DOMAIN tree) =>
        LET desc == Descendants(Range(parents), root)
        IN  /\ \A d \in desc \cup {root} : Occurrences(order, d) = 1
            /\ Range(order) \subseteq desc \cup {root}

\* A traversal from a key with a child and a grandchild, while the graph also
\* links a node that is not below the start node.
C3_Witness ==
    /\ tpc = "done"
    /\ root \in DOMAIN tree
    /\ Cardinality(Descendants(Range(parents), root)) = 2
    /\ \E e \in Range(parents) : e[1] \notin Range(order) \/ e[2] \notin Range(order)
    /\ \E e \in Range(parents) : e[2] # root /\ e[1] \in Range(order)

(***************************************************************************)
(* get_tweet_thread (tweets.py 188-230) with get_start_tweet (135-151),    *)
(* get_conversation_tweets (154-185) and get_parent (77-95).               *)
(*                                                                         *)
(* A tweet is a record with the fields id, author_id, conversation_id and  *)
(* text, and the field referenced_tweets when it refers to other tweets.   *)
(***************************************************************************)
ThreadAuthor == "author"

OtherAuthor == "someone"

\* The conversation's identifier is that of its first tweet.
ConvRoot == 1

OtherConv == 0

TextOf(id) == <<"text", id>>

\* Lines 91-95: the id of the first reference of type replied_to; NoParent
\* stands for the None returned when there is none.
get_parent(tweet) ==
    IF "referenced_tweets" \in DOMAIN tweet
    THEN LET refs == tweet.referenced_tweets
             hits == { k \in DOMAIN refs : refs[k].type = "replied_to" }
         IN  IF hits = {} THEN NoParent ELSE refs[Min(hits)].id
    ELSE NoParent

\* dict[key] = value: a new key goes last, a known key keeps its place.
DictSet(d, key, value) ==
    IF \E k \in DOMAIN d : d[k][1] = key
    THEN [k \in DOMAIN d |-> IF d[k][1] = key THEN <<key, value>> ELSE d[k]]
    ELSE Append(d, <<key, value>>)

\* Line 218: the tweets whose text is kept.
IsThreadTweet(tweet, author, conv) ==
    tweet.author_id = author /\ tweet.conversation_id = conv

\* Lines 217-221, from the k-th tweet on: the dicts tweets and parents.
RECURSIVE Collect(_, _, _, _, _, _)
Collect(ts, k, author, conv, tw, ps) ==
    IF k > Len(ts) THEN [tweets |-> tw, parents |-> ps]
    ELSE LET tweet == ts[k]
             tw2 == IF IsThreadTweet(tweet, author, conv)
                    THEN [i \in DOMAIN tw \cup {tweet.id} |->
                            IF i = tweet.id THEN tweet.text ELSE tw[i]]
                    ELSE tw
             p == get_parent(tweet)
             ps2 == IF p # NoParent THEN DictSet(ps, tweet.id, p) ELSE ps
         IN  Collect(ts, k + 1, author, conv, tw2, ps2)

\* Line 228: the identifiers whose text is looked up.
KeptKeepsTagging(ids, tagging) == ids

Kept(ids, tagging) == SelectSeq(ids, LAMBDA x : x # tagging)

(***************************************************************************)
(* What the search may return: for each identifier 2..MaxId, no tweet or a *)
(* tweet of the thread author in the conversation, of another author, or   *)
(* of the thread author in another conversation, that replies to an        *)
(* earlier identifier or to nothing.                                       *)
(***************************************************************************)
Origins ==
    { [author_id |-> ThreadAuthor, conversation_id |-> ConvRoot],
      [author_id |-> OtherAuthor, conversation_id |-> ConvRoot],
      [author_id |-> ThreadAuthor, conversation_id |-> OtherConv] }

TweetsWithId(i) ==
    { [id |-> i, author_id |-> o.author_id, conversation_id |-> o.conversation_id,
       text |-> TextOf(i)] : o \in Origins }
    \cup
    { [id |-> i, author_id |-> o.author_id, conversation_id |-> o.conversation_id,
       text |-> TextOf(i),
       referenced_tweets |-> << [type |-> "replied_to", id |-> p] >>] :
         o \in Origins, p \in 1..(i - 1) }

\* The sets of tweets with identifiers 2..i, at most one tweet per identifier.
RECURSIVE PlatformsUpTo(_)
PlatformsUpTo(i) ==
    IF i < 2 THEN {{}}
    ELSE { S \cup T : S \in PlatformsUpTo(i - 1),
                      T \in {{}} \cup { {t} : t \in TweetsWithId(i) } }

Platforms == PlatformsUpTo(MaxId)

IdsOf(S) == { t.id : t \in S }

ById(S, i) == CHOOSE t \in S : t.id = i

\* The response lists the tweets oldest first or newest first.
OldestFirst(S) == LET ids == Ascending(IdsOf(S)) IN [k \in DOMAIN ids |-> ById(S, ids[k])]

NewestFirst(S) ==
    LET ids == Ascending(IdsOf(S))
        n == Len(ids)
    IN  [k \in DOMAIN ids |-> ById(S, ids[n + 1 - k])]

InitThread ==
    /\ pc = "start"
    /\ platform \in Platforms
    /\ conv_id = ConvRoot
    /\ tagging_id = NoId
    /\ author_id = None
    /\ data = <<>>
    /\ tweets = <<>>
    /\ conversation = <<>>
    /\ parents = <<>>
    /\ tree = <<>>
    /\ root = NoId
    /\ order = <<>>
    /\ tpc = "idle"
    /\ IdleBound
    /\ IdleHandler

\* Lines 204-206: get_start_tweet, and the return of None without an author.
GetStartTweet ==
    /\ pc = "start"
    /\ author_id' = ThreadAuthor
    /\ tweets' = (conv_id :> TextOf(conv_id))
    /\ pc' = "search"
    /\ UNCHANGED <<platform, conv_id, tagging_id, data, conversation, treeVars, boundVars, handlerVars>>

GetStartTweetNoAuthor ==
    /\ pc = "start"
    /\ pc' = "returned_none"
    /\ UNCHANGED <<platform, conv_id, tagging_id, author_id, data, tweets, conversation,
                   treeVars, boundVars, handlerVars>>

\* Line 183: the search comes back with result_count == 0 (nothing indexed
\* yet, or nothing to find).
SearchEmpty ==
    /\ pc = "search"
    /\ pc' = "sleep"
    /\ UNCHANGED <<platform, conv_id, tagging_id, author_id, data, tweets, conversation,
                   treeVars, boundVars, handlerVars>>

\* Line 184: time.sleep(3), then the search again.
Sleep ==
    /\ pc = "sleep"
    /\ pc' = "search"
    /\ UNCHANGED <<platform, conv_id, tagging_id, author_id, data, tweets, conversation,
                   treeVars, boundVars, handlerVars>>

\* Lines 183, 185: a search with results ends the loop.
SearchFound ==
    /\ pc = "search"
    /\ platform # {}
    /\ data' \in {OldestFirst(platform), NewestFirst(platform)}
    /\ pc' = "build"
    /\ UNCHANGED <<platform, conv_id, tagging_id, author_id, tweets, conversation,
                   treeVars, boundVars, handlerVars>>

\* Lines 215-230, for a tagging tweet with any identifier.
BuildThread ==
    /\ pc = "build"
    /\ \E tag \in 1..MaxId :
          LET got == Collect(data, 1, author_id, conv_id, tweets, <<>>)
              t == build_tweet_tree(got.parents)
              ids == Kept(enumerate_tweet_tree(t, conv_id), tag)
          IN  /\ tagging_id' = tag
              /\ tweets' = got.tweets
              /\ parents' = got.parents
              /\ tree' = t
              /\ IF \A k \in DOMAIN ids : ids[k] \in DOMAIN got.tweets
                 THEN /\ conversation' = [k \in DOMAIN ids |-> got.tweets[ids[k]]]
                      /\ pc' = "returned"
                 ELSE /\ conversation' = <<>>
                      /\ pc' = "key_error"
    /\ UNCHANGED <<platform, conv_id, author_id, data, root, order, tpc, boundVars, handlerVars>>

NextThread ==
    \/ GetStartTweet
    \/ GetStartTweetNoAuthor
    \/ SearchEmpty
    \/ Sleep
    \/ SearchFound
    \/ BuildThread

\* The process runs on while it has a step to take.
SpecThread == InitThread /\ [][NextThread]_vars /\ WF_vars(NextThread)

(***************************************************************************)
(* Claims about get_tweet_thread, checked under SpecThread.                *)
(***************************************************************************)
\* The reply edges of the tweets the search returns.
ReplyEdges(S) ==
    { <<t.id, t.referenced_tweets[1].id>> :
        t \in { u \in S : "referenced_tweets" \in DOMAIN u } }

\* The identifiers reachable from the conversation root in depth-first
\* order, without the tagging message.
ReachableOthers ==
    SelectSeq(PreOrder(ReplyEdges(platform), conv_id), LAMBDA x : x # tagging_id)

\* C4: the ordered conversation returned by get_tweet_thread never holds the
\* tagging message's entry, wherever that message is in the graph, and
\* holds the other reachable identifiers' entries in depth-first order.
C4_TaggingExcluded ==
    pc = "returned" =>
        /\ conversation = [k \in DOMAIN ReachableOthers |-> TextOf(ReachableOthers[k])]
        /\ TextOf(tagging_id) \notin Range(conversation)

\* Scenario B: parents {2:1, 3:1, 4:2} and tagging id 3 give the entries of
\* [1, 2, 4].
C4_Witness ==
    /\ pc = "returned"
    /\ Range(parents) = { <<2, 1>>, <<3, 1>>, <<4, 2>> }
    /\ tagging_id = 3
    /\ conversation = << TextOf(1), TextOf(2), TextOf(4) >>

\* C5: when the linearized sequence holds an identifier that is not in the
\* message-text collection, get_tweet_thread skips it and returns the texts
\* of the remaining identifiers; it does not fail with a lookup error.
C5_UnknownIdsSkipped ==
    (/\ pc \in {"returned", "key_error"}
     /\ \E k \in DOMAIN ReachableOthers : ReachableOthers[k] \notin DOMAIN tweets) =>
        LET known == SelectSeq(ReachableOthers, LAMBDA x : x \in DOMAIN tweets)
        IN  /\ pc = "returned"
            /\ conversation = [k \in DOMAIN known |-> tweets[known[k]]]

\* C10: the polling wait is bounded: every run of get_tweet_thread ends, in
\* a return or in a failure (a Timeout when the search stays empty).
C10_PollingEnds ==
    <>(pc \in {"returned", "returned_none", "key_error", "timeout"})

(***************************************************************************)
(* TweetHandler.handle, which webhook.py (lines 14 and 80) imports from    *)
(* tweets and calls, is not part of tweets.py as given.  Its steps follow  *)
(* the orchestrator's description: resolve the conversation root, resolve  *)
(* the author and the origin message (too old after 7 days), collect the   *)
(* author's messages by polling, linearize, summarize, bound, reply.       *)
(***************************************************************************)
StaleDays == 7

IsStaleNever(age) == FALSE

IsStale(age) == age > StaleDays

InitHandler ==
    /\ hpc = "resolve_root"
    /\ origin_age \in 0..MaxAgeDays
    /\ debug \in BOOLEAN
    /\ searched = FALSE
    /\ replied = FALSE
    /\ failure = "none"
    /\ IdleBound
    /\ IdleTree
    /\ IdleThread

ResolveRoot ==
    /\ hpc = "resolve_root"
    /\ hpc' = "resolve_author"
    /\ UNCHANGED <<origin_age, debug, searched, replied, failure,
                   boundVars, treeVars, threadVars>>

ResolveRootFails ==
    /\ hpc = "resolve_root"
    /\ hpc' = "aborted"
    /\ failure' = "NotFound"
    /\ UNCHANGED <<origin_age, debug, searched, replied, boundVars, treeVars, threadVars>>

ResolveAuthor ==
    /\ hpc = "resolve_author"
    /\ IF IsStale(origin_age)
       THEN hpc' = "aborted" /\ failure' = "TooOld"
       ELSE hpc' = "collect" /\ failure' = failure
    /\ UNCHANGED <<origin_age, debug, searched, replied, boundVars, treeVars, threadVars>>

CollectEmpty ==
    /\ hpc = "collect"
    /\ searched' = TRUE
    /\ UNCHANGED <<hpc, origin_age, debug, replied, failure,
                   boundVars, treeVars, threadVars>>

CollectFound ==
    /\ hpc = "collect"
    /\ searched' = TRUE
    /\ hpc' = "linearize"
    /\ UNCHANGED <<origin_age, debug, replied, failure, boundVars, treeVars, threadVars>>

Linearize ==
    /\ hpc = "linearize"
    /\ hpc' = "summarize"
    /\ UNCHANGED <<origin_age, debug, searched, replied, failure,
                   boundVars, treeVars, threadVars>>

Summarize ==
    /\ hpc = "summarize"
    /\ hpc' = "bound"
    /\ UNCHANGED <<origin_age, debug, searched, replied, failure,
                   boundVars, treeVars, threadVars>>

SummarizeFails ==
    /\ hpc = "summarize"
    /\ hpc' = "aborted"
    /\ failure' = "EmptySummary"
    /\ UNCHANGED <<origin_age, debug, searched, replied, boundVars, treeVars, threadVars>>

BoundSummary ==
    /\ hpc = "bound"
    /\ hpc' = "dispatch"
    /\ UNCHANGED <<origin_age, debug, searched, replied, failure,
                   boundVars, treeVars, threadVars>>

Dispatch ==
    /\ hpc = "dispatch"
    /\ replied' = ~debug
    /\ hpc' = "done"
    /\ UNCHANGED <<origin_age, debug, searched, failure, boundVars, treeVars, threadVars>>

NextHandler ==
    \/ ResolveRoot
    \/ ResolveRootFails
    \/ ResolveAuthor
    \/ CollectEmpty
    \/ CollectFound
    \/ Linearize
    \/ Summarize
    \/ SummarizeFails
    \/ BoundSummary
    \/ Dispatch

SpecHandler == InitHandler /\ [][NextHandler]_vars

====
